---- MODULE Spec2Model ----
(***************************************************************************)
(* Model of globus_sdk/_generate_init.py: the export table, the generator  *)
(* of the package __init__.py, and the run-time behaviour of the generated *)
(* module in normal mode (module-level __dir__, __getattr__ and            *)
(* _force_eager_imports), executed by several threads.                     *)
(***************************************************************************)
EXTENDS Naturals, Sequences, FiniteSets, TLC

(* ------------------------------ bounds -------------------------------- *)

\* a thread calls _force_eager_imports() to completion at most this often
MaxForce == 2

\* the threads that use the namespace concurrently
Threads == {"t1", "t2"}

(* --------------------------- the export table ------------------------- *)

\* _LAZY_IMPORT_TABLE: an excerpt of the list of (modname, items) pairs, in
\* the order of the source: one submodule with one symbol, one with two.
LAZY_IMPORT_TABLE ==
    << <<"client", <<"BaseClient">> >>,
       <<"local_endpoint",
         <<"GlobusConnectPersonalOwnerInfo", "LocalGlobusConnectPersonal">> >> >>

\* __name__ of the generated module
PackageName == "globus_sdk"

\* a name no submodule provides
UnknownName == "Qux"

Range(f) == {f[i] : i \in DOMAIN f}

\* the names bound by the preamble itself when the module is loaded
InfraNames == <<"__version__", "_force_eager_imports">>

(* ---------------------- the generated resolution table ---------------- *)

\* the keys of a dict display, in order of first occurrence
RECURSIVE DictKeys(_)
DictKeys(pairs) ==
    IF pairs = <<>> THEN <<>>
    ELSE LET front == SubSeq(pairs, 1, Len(pairs) - 1)
             last  == pairs[Len(pairs)][1]
         IN  IF \E i \in DOMAIN front : front[i][1] = last
             THEN DictKeys(front)
             ELSE Append(DictKeys(front), last)

\* the value a dict display keeps for a key: the last one written
DictValue(pairs, key) ==
    LET idx == {i \in DOMAIN pairs : pairs[i][1] = key}
        last == CHOOSE i \in idx : \A j \in idx : j <= i
    IN  pairs[last][2]

\* _generate_lazy_import_table: the dict display {"modname": {"item", ...}}
\* as the generated module evaluates it: an insertion-ordered dict of sets
GenerateLazyImportTable(tbl) ==
    LET pairs == [i \in DOMAIN tbl |-> <<tbl[i][1], Range(tbl[i][2])>>]
        keys  == DictKeys(pairs)
    IN  [i \in DOMAIN keys |-> <<keys[i], DictValue(pairs, keys[i])>>]

\* the run-time _LAZY_IMPORT_TABLE of the generated module
ResolutionTable == GenerateLazyImportTable(LAZY_IMPORT_TABLE)

Modules == {ResolutionTable[i][1] : i \in DOMAIN ResolutionTable}

AllSymbols == UNION {ResolutionTable[i][2] : i \in DOMAIN ResolutionTable}

Names == AllSymbols \cup Range(InfraNames) \cup {UnknownName}

(* ------------------------- the declared export list ------------------- *)

\* the order of Python's str comparison (by code point) on the names used
StrOrder ==
    <<"BaseClient", "GlobusConnectPersonalOwnerInfo",
      "LocalGlobusConnectPersonal", "Qux", "__all__", "__file__",
      "__path__", "__version__", "_force_eager_imports">>

StrRank(s) == CHOOSE i \in DOMAIN StrOrder : StrOrder[i] = s

\* itertools.chain(*[items for _, items in tbl])
RECURSIVE Chain(_)
Chain(tbl) ==
    IF tbl = <<>> THEN <<>> ELSE tbl[1][2] \o Chain(Tail(tbl))

\* insert x into an ascending sequence, after the elements equal to it
RECURSIVE InsertSorted(_, _)
InsertSorted(x, seq) ==
    IF seq = <<>> THEN <<x>>
    ELSE IF StrRank(x) < StrRank(seq[1]) THEN <<x>> \o seq
    ELSE <<seq[1]>> \o InsertSorted(x, Tail(seq))

\* sorted(...) of a sequence of names
RECURSIVE Sorted(_)
Sorted(seq) ==
    IF seq = <<>> THEN <<>>
    ELSE InsertSorted(seq[Len(seq)], Sorted(SubSeq(seq, 1, Len(seq) - 1)))

\* _generate_all_tuple: the __all__ tuple of the generated module
GenerateAllTuple(tbl) == InfraNames \o Sorted(Chain(tbl))

AllTuple == GenerateAllTuple(LAZY_IMPORT_TABLE)

\* __dir__() of the generated module
DirResult == AllTuple \o <<"__all__", "__file__", "__path__">>

(* ------------------------------ values -------------------------------- *)

\* no attribute of that name in the module's __dict__
Unbound == <<>>

\* the object that the k-th execution of a submodule's body defines under a
\* name: executing the body again creates new objects
ModValue(m, s, k) == <<m, s, k>>

\* the objects bound by the preamble: from .version import __version__ and
\* def _force_eager_imports
InfraValue(n) ==
    IF n = "__version__" THEN ModValue("version", n, 1)
    ELSE ModValue("__init__", n, 1)

NoResult == [kind |-> "none", name |-> "", val |-> <<>>]

Returned(n, v) == [kind |-> "value", name |-> n, val |-> v]

\* AttributeError(f"module {__name__} has no attribute {name}")
UnknownAttribute(n) ==
    [kind |-> "AttributeError", name |-> n, val |-> <<PackageName, n, 0>>]

\* the AttributeError getattr(mod, name) raises when mod lacks the name
MissingAttribute(m, n) ==
    [kind |-> "AttributeError", name |-> n, val |-> <<m, n, 0>>]

\* the exception importlib.import_module raises when the submodule fails
ImportFailure(m, n) ==
    [kind |-> "ImportError", name |-> n, val |-> <<m, "", 0>>]

(* ------------------------------ the generator ------------------------- *)

VARIABLES
    table,       \* the export table the generator reads
    hashseed,    \* the hash seed of the interpreter that runs the generator
    runs,        \* how often main() has written __init__.py
    file,        \* __init__.py: the pieces main() wrote, <<>> before
    module,      \* the generated module as loaded: mode, data, namespace
    dirOut       \* what the loaded module's __dir__ returned last, <<>> before

genvars == <<table, hashseed, runs, file, module, dirOut>>

\* main() runs at most this often
MaxRuns == 2

\* an export table entry lists at most this many items
MaxItems == 2

\* the hash seeds an interpreter may start with
HashSeeds == {"h1", "h2"}

\* the export tables the generator is run on: one or two entries with
\* distinct modnames, each with 1..MaxItems distinct items; two entries may
\* list the same item
GenTables ==
    LET syms    == UNION {Range(LAZY_IMPORT_TABLE[i][2]) : i \in DOMAIN LAZY_IMPORT_TABLE}
        mods    == {LAZY_IMPORT_TABLE[i][1] : i \in DOMAIN LAZY_IMPORT_TABLE}
        items   == UNION {{it \in [1..k -> syms] :
                             \A i, j \in 1..k : i # j => it[i] # it[j]} :
                           k \in 1..MaxItems}
        entries == {<<m, it>> : m \in mods, it \in items}
    IN  {<<e>> : e \in entries}
          \cup {q \in entries \X entries : q[1][1] # q[2][1]}

RECURSIVE Flatten(_)
Flatten(seqs) ==
    IF seqs = <<>> THEN <<>> ELSE seqs[1] \o Flatten(Tail(seqs))

\* one piece of the generated text
Line(kind, a, b) == <<kind, a, b>>

Preamble == Line("FIXED_PREAMBLE", "", "")
Epilog == Line("FIXED_EPILOG", "", "")
Blank == Line("", "", "")
IfLine == Line("if typing.TYPE_CHECKING or sys.version_info < (3, 7):", "", "")
ElseHooks == Line("else: def __dir__, def __getattr__", "", "")

\* an import list that names only the first item of each entry
GenerateImportsFirstOnly(tbl) ==
    [i \in DOMAIN tbl |-> Line("from-import", tbl[i][1], tbl[i][2][1])]

\* _generate_imports: "from .modname import item" for each item of each
\* entry, in the order of the table
GenerateImports(tbl) ==
    Flatten([i \in DOMAIN tbl |->
               [j \in DOMAIN tbl[i][2] |->
                   Line("from-import", tbl[i][1], tbl[i][2][j])]])

\* the lines of one entry of the dict display
EntryLines(m, items) ==
    <<Line("key-open", m, "")>>
      \o [j \in DOMAIN items |-> Line("item", items[j], "")]
      \o <<Line("key-close", "", "")>>

\* a sequence reversed
Reverse(q) == [i \in DOMAIN q |-> q[Len(q) + 1 - i]]

\* a table display that writes each entry's items in the iteration order of
\* a set, which follows the interpreter's hash seed
TableLinesHashed(tbl) ==
    <<Line("table-open", "", "")>>
      \o Flatten([i \in DOMAIN tbl |->
                    EntryLines(tbl[i][1],
                               IF hashseed = "h1" THEN tbl[i][2]
                               ELSE Reverse(tbl[i][2]))])
      \o <<Line("table-close", "", "")>>

\* a table display that leaves out the last item of each entry
TableLinesDropLast(tbl) ==
    <<Line("table-open", "", "")>>
      \o Flatten([i \in DOMAIN tbl |->
                    EntryLines(tbl[i][1],
                               SubSeq(tbl[i][2], 1, Len(tbl[i][2]) - 1))])
      \o <<Line("table-close", "", "")>>

\* _generate_lazy_import_table: the lines of the dict display
GenerateLazyImportTableLines(tbl) ==
    <<Line("table-open", "", "")>>
      \o Flatten([i \in DOMAIN tbl |-> EntryLines(tbl[i][1], tbl[i][2])])
      \o <<Line("table-close", "", "")>>

\* an export list in the order of the table, not sorted
AllTupleLinesUnsorted(tbl) ==
    LET all == InfraNames \o Chain(tbl)
    IN  <<Line("all-open", "", "")>>
          \o [i \in DOMAIN all |-> Line("all", all[i], "")]
          \o <<Line("all-close", "", "")>>

\* _generate_all_tuple: the lines of the __all__ tuple
GenerateAllTupleLines(tbl) ==
    LET all == GenerateAllTuple(tbl)
    IN  <<Line("all-open", "", "")>>
          \o [i \in DOMAIN all |-> Line("all", all[i], "")]
          \o <<Line("all-close", "", "")>>

\* _init_pieces: the pieces in the order they are yielded
InitPieces(tbl) ==
    <<Preamble, Blank>>
      \o GenerateLazyImportTableLines(tbl)
      \o <<Blank, IfLine>>
      \o GenerateImports(tbl)
      \o <<ElseHooks, Blank>>
      \o GenerateAllTupleLines(tbl)
      \o <<Blank, Epilog>>

\* _generate_init: "\n".join of the pieces, kept as the sequence of pieces
GenerateInit(tbl) == InitPieces(tbl)

(* ------------------------ loading the generated text ------------------ *)

\* the pieces of a kind, in the order of the text
PiecesOf(f, kind) == SelectSeq(f, LAMBDA l : l[1] = kind)

\* the dict display of the text as the interpreter evaluates it: each key
\* with the set of the items up to its closing brace, a repeated key keeping
\* its first position and its last value
EvalTable(f) ==
    LET opens == {i \in DOMAIN f : f[i][1] = "key-open"}
        close(i) == CHOOSE j \in DOMAIN f :
                       /\ j > i /\ f[j][1] = "key-close"
                       /\ \A k \in DOMAIN f :
                             (k > i /\ f[k][1] = "key-close") => j <= k
        nth(n) == CHOOSE i \in opens :
                       Cardinality({k \in opens : k < i}) = n - 1
        pairs == [n \in 1..Cardinality(opens) |->
                    <<f[nth(n)][2],
                      {f[j][2] : j \in {k \in DOMAIN f :
                                           k > nth(n) /\ k < close(nth(n))}}>>]
        keys == DictKeys(pairs)
    IN  [i \in DOMAIN keys |-> <<keys[i], DictValue(pairs, keys[i])>>]

\* the __all__ tuple of the text
EvalAll(f) ==
    LET ls == PiecesOf(f, "all") IN [i \in DOMAIN ls |-> ls[i][2]]

\* the names a generated module can hold
ModuleNames ==
    UNION {Range(LAZY_IMPORT_TABLE[i][2]) : i \in DOMAIN LAZY_IMPORT_TABLE}
      \cup Range(InfraNames)

\* the namespace after the preamble
PreambleNs ==
    [n \in ModuleNames |->
        IF n \in Range(InfraNames) THEN InfraValue(n) ELSE Unbound]

\* the namespace after the import statements, run in the order of the text
RECURSIVE ExecImports(_, _)
ExecImports(d, ls) ==
    IF ls = <<>> THEN d
    ELSE ExecImports([d EXCEPT ![ls[1][3]] = ModValue(ls[1][2], ls[1][3], 1)],
                     Tail(ls))

NotLoaded ==
    [mode |-> "none", lazy |-> <<>>, all |-> <<>>, hooks |-> {},
     ns |-> [n \in ModuleNames |-> Unbound]]

\* the module after load when TYPE_CHECKING or the version test holds: the
\* import statements run, the else branch does not
LoadStatic(f) ==
    [mode |-> "static", lazy |-> EvalTable(f), all |-> EvalAll(f),
     hooks |-> {},
     ns |-> ExecImports(PreambleNs, PiecesOf(f, "from-import"))]

\* the module after load otherwise: the else branch defines the two hooks
LoadNormal(f) ==
    [mode |-> "normal", lazy |-> EvalTable(f), all |-> EvalAll(f),
     hooks |-> {"__dir__", "__getattr__"},
     ns |-> PreambleNs]

(* ------------------------------- state -------------------------------- *)

VARIABLES
    ns,          \* the namespace module's __dict__: name -> value or Unbound
    sysmodules,  \* the submodules present in sys.modules
    importCount, \* per submodule: how often its body has run to completion
    absent,      \* the declared symbols their submodule does not define
    iterOrder,   \* per table entry: the iteration order of its set
    pc,          \* per thread: where it stands
    name,        \* per thread: the attribute being looked up
    mod,         \* per thread: modname found by the scan of __getattr__
    value,       \* per thread: the value fetched by __getattr__
    queue,       \* per thread: attributes _force_eager_imports has yet to get
    result,      \* per thread: outcome of its last completed call
    flog,        \* per thread: the accesses of its current force-eager call
    forceDone,   \* per thread: force-eager calls completed without error
    hooked       \* (thread, symbol): __getattr__ returned a value

runvars == <<ns, sysmodules, importCount, absent, iterOrder, pc, name, mod,
             value, queue, result, flog, forceDone, hooked>>

vars == <<runvars, genvars>>

\* the orders in which a set of names can be iterated
Orders(S) ==
    {q \in [1..Cardinality(S) -> S] : \A i, j \in DOMAIN q : q[i] = q[j] => i = j}

\* the symbol sets a broken submodule may fail to define
AbsentChoices == {{}, {"LocalGlobusConnectPersonal"}}

\* module load in normal mode: the preamble binds the infrastructure names,
\* no submodule is imported, no symbol of the table is bound
RunInit ==
    /\ ns = [n \in Names |->
                IF n \in Range(InfraNames) THEN InfraValue(n) ELSE Unbound]
    /\ sysmodules = {}
    /\ importCount = [m \in Modules |-> 0]
    /\ absent \in AbsentChoices
    /\ iterOrder \in {f \in [DOMAIN ResolutionTable ->
                               UNION {Orders(ResolutionTable[i][2]) :
                                        i \in DOMAIN ResolutionTable}] :
                        \A i \in DOMAIN ResolutionTable :
                            f[i] \in Orders(ResolutionTable[i][2])}
    /\ pc = [t \in Threads |-> "idle"]
    /\ name = [t \in Threads |-> ""]
    /\ mod = [t \in Threads |-> ""]
    /\ value = [t \in Threads |-> Unbound]
    /\ queue = [t \in Threads |-> <<>>]
    /\ result = [t \in Threads |-> NoResult]
    /\ flog = [t \in Threads |-> <<>>]
    /\ forceDone = [t \in Threads |-> 0]
    /\ hooked = {}

\* the package as shipped: __init__.py generated from the export table and
\* loaded in normal mode
Init ==
    /\ RunInit
    /\ table = LAZY_IMPORT_TABLE
    /\ hashseed = "h1"
    /\ runs = 1
    /\ file = GenerateInit(LAZY_IMPORT_TABLE)
    /\ module = LoadNormal(GenerateInit(LAZY_IMPORT_TABLE))
    /\ dirOut = <<>>

(* ---------------------- the steps of the generated code --------------- *)

\* ordinary attribute lookup on the module: is the name in its __dict__
HasAttr(d, n) == d[n] # Unbound

\* a scan that falls back to the first entry when no entry holds the name
ScanDefaultFirst(tbl, n) ==
    LET hits == {i \in DOMAIN tbl : n \in tbl[i][2]}
    IN  tbl[IF hits = {} THEN 1 ELSE CHOOSE i \in hits : \A j \in hits : i <= j][1]

\* __getattr__: the modname of the first table entry whose items hold the
\* name, "" when the loop ends without a match
ScanTable(tbl, n) ==
    LET hits == {i \in DOMAIN tbl : n \in tbl[i][2]}
    IN  IF hits = {} THEN ""
        ELSE tbl[CHOOSE i \in hits : \A j \in hits : i <= j][1]

\* an import that runs the body of the submodule on every call
NeedsLoadAlways(m, mods) == TRUE

\* importlib.import_module: the body of a submodule runs only when the
\* submodule is not in sys.modules
NeedsLoad(m, mods) == m \notin mods

\* the items the export table declares for a submodule
ItemsOf(m) ==
    LAZY_IMPORT_TABLE[CHOOSE i \in DOMAIN LAZY_IMPORT_TABLE :
                          LAZY_IMPORT_TABLE[i][1] = m][2]

\* a fetch that reads the first attribute the submodule declares
FetchFirstItem(m, n, k) == ModValue(m, ItemsOf(m)[1], k)

\* getattr(mod, name): the object the loaded submodule holds under the name
FetchValue(m, n, k) == ModValue(m, n, k)

\* a hook that returns the value without writing it to the namespace
SetAttrSkipped(d, n, v) == d

\* a hook that copies every item of the submodule onto the namespace
SetAttrSiblings(d, n, v) ==
    [x \in DOMAIN d |->
        IF x \in Range(ItemsOf(v[1])) THEN ModValue(v[1], x, v[3]) ELSE d[x]]

\* setattr(sys.modules[__name__], name, value)
SetAttr(d, n, v) == [d EXCEPT ![n] = v]

\* a hook that catches the exception and caches a placeholder
NsOnRaisePoisoned(d, n) == [d EXCEPT ![n] = ModValue("", n, 0)]

\* a hook that unbinds every symbol of the table when a lookup fails
NsOnRaiseRollback(d, n) ==
    [x \in DOMAIN d |-> IF x \in AllSymbols THEN Unbound ELSE d[x]]

\* the namespace when an exception leaves __getattr__: the import and the
\* getattr come before the setattr, which is not reached
NsOnRaise(d, n) == d

\* the exception that leaves __getattr__ is the one raised inside it
Propagate(exc) == exc

\* an inner loop that stops after the first attribute of each set
ForceQueueFirstOnly(tbl, order) ==
    Flatten([i \in DOMAIN tbl |-> <<order[i][1]>>])

\* _force_eager_imports: the attributes in the order of the two loops, the
\* table's values in the dict's order and each set in its iteration order
ForceQueue(tbl, order) == Flatten([i \in DOMAIN tbl |-> order[i]])

\* a thread is inside _force_eager_imports
InForce(t) == pc[t] = "force" \/ queue[t] # <<>>

\* an exception ends the thread's call, and the force-eager call around it
Raise(t, exc) ==
    /\ pc' = [pc EXCEPT ![t] = "idle"]
    /\ name' = [name EXCEPT ![t] = ""]
    /\ mod' = [mod EXCEPT ![t] = ""]
    /\ value' = [value EXCEPT ![t] = Unbound]
    /\ queue' = [queue EXCEPT ![t] = <<>>]
    /\ result' = [result EXCEPT ![t] = Propagate(exc)]
    /\ ns' = NsOnRaise(ns, name[t])

\* getattr(globus_sdk, n) by a caller: a plain read when the name is bound,
\* else the module's __getattr__ is entered
Lookup(t, n) ==
    /\ UNCHANGED genvars
    /\ pc[t] = "idle"
    /\ IF HasAttr(ns, n)
       THEN /\ result' = [result EXCEPT ![t] = Returned(n, ns[n])]
            /\ UNCHANGED <<pc, name>>
       ELSE /\ result' = [result EXCEPT ![t] = NoResult]
            /\ pc' = [pc EXCEPT ![t] = "scan"]
            /\ name' = [name EXCEPT ![t] = n]
    /\ flog' = [flog EXCEPT ![t] = <<>>]
    /\ UNCHANGED <<ns, sysmodules, importCount, absent, iterOrder, mod, value,
                   queue, forceDone, hooked>>

\* an enumeration without the hook: the names bound on the namespace, sorted
DirValueBound(d) ==
    LET S == {n \in DOMAIN d : d[n] # Unbound}
    IN  CHOOSE q \in Orders(S) :
            \A i, j \in DOMAIN q : i < j => StrRank(q[i]) < StrRank(q[j])

\* what __dir__ returns on a namespace: it reads __all__ and nothing else
DirValue(d) == DirResult

\* dir(globus_sdk): the module's __dir__
Dir(t) ==
    /\ UNCHANGED genvars
    /\ pc[t] = "idle"
    /\ result' = [result EXCEPT ![t] =
                     [kind |-> "dir", name |-> "", val |-> DirValue(ns)]]
    /\ flog' = [flog EXCEPT ![t] = <<>>]
    /\ UNCHANGED <<ns, sysmodules, importCount, absent, iterOrder, pc, name, mod,
                   value, queue, forceDone, hooked>>

\* a call of _force_eager_imports() begins
ForceStart(t) ==
    /\ UNCHANGED genvars
    /\ pc[t] = "idle"
    /\ forceDone[t] < MaxForce
    /\ pc' = [pc EXCEPT ![t] = "force"]
    /\ queue' = [queue EXCEPT ![t] = ForceQueue(ResolutionTable, iterOrder)]
    /\ result' = [result EXCEPT ![t] = NoResult]
    /\ flog' = [flog EXCEPT ![t] = <<>>]
    /\ UNCHANGED <<ns, sysmodules, importCount, absent, iterOrder, name, mod,
                   value, forceDone, hooked>>

\* one getattr(current_module, attr) of the loops of _force_eager_imports
ForceStep(t) ==
    /\ UNCHANGED genvars
    /\ pc[t] = "force"
    /\ queue[t] # <<>>
    /\ LET n == Head(queue[t])
       IN  IF HasAttr(ns, n)
           THEN /\ queue' = [queue EXCEPT ![t] = Tail(queue[t])]
                /\ flog' = [flog EXCEPT ![t] = Append(flog[t], <<n, "plain">>)]
                /\ UNCHANGED <<pc, name>>
           ELSE /\ pc' = [pc EXCEPT ![t] = "scan"]
                /\ name' = [name EXCEPT ![t] = n]
                /\ flog' = [flog EXCEPT ![t] = Append(flog[t], <<n, "hook">>)]
                /\ UNCHANGED queue
    /\ UNCHANGED <<ns, sysmodules, importCount, absent, iterOrder, mod, value,
                   result, forceDone, hooked>>

\* the loops of _force_eager_imports are exhausted: it returns None
ForceReturn(t) ==
    /\ UNCHANGED genvars
    /\ pc[t] = "force"
    /\ queue[t] = <<>>
    /\ pc' = [pc EXCEPT ![t] = "idle"]
    /\ result' = [result EXCEPT ![t] = [kind |-> "forced", name |-> "", val |-> <<>>]]
    /\ forceDone' = [forceDone EXCEPT ![t] = @ + 1]
    /\ UNCHANGED <<ns, sysmodules, importCount, absent, iterOrder, name, mod,
                   value, queue, flog, hooked>>

\* __getattr__: the loop over the table's items
Scan(t) ==
    /\ UNCHANGED genvars
    /\ pc[t] = "scan"
    /\ LET m == ScanTable(ResolutionTable, name[t])
       IN  IF m # ""
           THEN /\ pc' = [pc EXCEPT ![t] = "import"]
                /\ mod' = [mod EXCEPT ![t] = m]
                /\ UNCHANGED <<ns, name, value, queue, result>>
           ELSE Raise(t, UnknownAttribute(name[t]))
    /\ UNCHANGED <<sysmodules, importCount, absent, iterOrder, flog, forceDone,
                   hooked>>

\* __getattr__: importlib.import_module returns the submodule
ImportOK(t) ==
    /\ UNCHANGED genvars
    /\ pc[t] = "import"
    /\ IF NeedsLoad(mod[t], sysmodules)
       THEN /\ sysmodules' = sysmodules \cup {mod[t]}
            /\ importCount' = [importCount EXCEPT ![mod[t]] = @ + 1]
       ELSE UNCHANGED <<sysmodules, importCount>>
    /\ pc' = [pc EXCEPT ![t] = "fetch"]
    /\ UNCHANGED <<ns, absent, iterOrder, name, mod, value, queue, result, flog,
                   forceDone, hooked>>

\* __getattr__: the body of the submodule raises, the import fails and the
\* submodule is not left in sys.modules
ImportFail(t) ==
    /\ UNCHANGED genvars
    /\ pc[t] = "import"
    /\ NeedsLoad(mod[t], sysmodules)
    /\ Raise(t, ImportFailure(mod[t], name[t]))
    /\ UNCHANGED <<sysmodules, importCount, absent, iterOrder, flog, forceDone,
                   hooked>>

\* __getattr__: value = getattr(mod, name)
Fetch(t) ==
    /\ UNCHANGED genvars
    /\ pc[t] = "fetch"
    /\ IF name[t] \notin absent
       THEN /\ value' = [value EXCEPT ![t] =
                            FetchValue(mod[t], name[t], importCount[mod[t]])]
            /\ pc' = [pc EXCEPT ![t] = "bind"]
            /\ UNCHANGED <<ns, name, mod, queue, result>>
       ELSE Raise(t, MissingAttribute(mod[t], name[t]))
    /\ UNCHANGED <<sysmodules, importCount, absent, iterOrder, flog, forceDone,
                   hooked>>

\* __getattr__: the setattr on the namespace module and the return
Bind(t) ==
    /\ UNCHANGED genvars
    /\ pc[t] = "bind"
    /\ ns' = SetAttr(ns, name[t], value[t])
    /\ hooked' = hooked \cup {<<t, name[t]>>}
    /\ IF InForce(t)
       THEN /\ pc' = [pc EXCEPT ![t] = "force"]
            /\ queue' = [queue EXCEPT ![t] = Tail(queue[t])]
            /\ UNCHANGED result
       ELSE /\ pc' = [pc EXCEPT ![t] = "idle"]
            /\ result' = [result EXCEPT ![t] = Returned(name[t], value[t])]
            /\ UNCHANGED queue
    /\ name' = [name EXCEPT ![t] = ""]
    /\ mod' = [mod EXCEPT ![t] = ""]
    /\ value' = [value EXCEPT ![t] = Unbound]
    /\ UNCHANGED <<sysmodules, importCount, absent, iterOrder, flog, forceDone>>

Next ==
    \/ \E t \in Threads, n \in Names : Lookup(t, n)
    \/ \E t \in Threads : Dir(t)
    \/ \E t \in Threads : ForceStart(t)
    \/ \E t \in Threads : ForceStep(t)
    \/ \E t \in Threads : ForceReturn(t)
    \/ \E t \in Threads : Scan(t)
    \/ \E t \in Threads : ImportOK(t)
    \/ \E t \in Threads : ImportFail(t)
    \/ \E t \in Threads : Fetch(t)
    \/ \E t \in Threads : Bind(t)

Spec == Init /\ [][Next]_vars

(* ------------------- running the generator and loading ---------------- *)

\* before the generator has run: some export table, nothing written, nothing
\* loaded, no thread at work
GenInit ==
    /\ RunInit
    /\ absent = {}
    /\ iterOrder = [i \in DOMAIN ResolutionTable |-> LAZY_IMPORT_TABLE[i][2]]
    /\ table \in GenTables
    /\ hashseed \in HashSeeds
    /\ runs = 0
    /\ file = <<>>
    /\ module = NotLoaded
    /\ dirOut = <<>>

\* main(): a new interpreter writes _generate_init() to __init__.py
Main ==
    /\ runs < MaxRuns
    /\ runs' = runs + 1
    /\ hashseed' \in HashSeeds
    /\ file' = GenerateInit(table)
    /\ UNCHANGED <<table, module, dirOut, runvars>>

\* the generated module is loaded where the if test holds
LoadModuleStatic ==
    /\ file # <<>>
    /\ module.mode = "none"
    /\ module' = LoadStatic(file)
    /\ UNCHANGED <<table, hashseed, runs, file, dirOut, runvars>>

\* the generated module is loaded where the if test fails
LoadModuleNormal ==
    /\ file # <<>>
    /\ module.mode = "none"
    /\ module' = LoadNormal(file)
    /\ UNCHANGED <<table, hashseed, runs, file, dirOut, runvars>>

\* dir() on the loaded module calls the __dir__ it defines
ModuleDir ==
    /\ "__dir__" \in module.hooks
    /\ dirOut' = module.all \o <<"__all__", "__file__", "__path__">>
    /\ UNCHANGED <<table, hashseed, runs, file, module, runvars>>

GenNext ==
    \/ Main
    \/ LoadModuleStatic
    \/ LoadModuleNormal
    \/ ModuleDir

SpecGen == GenInit /\ [][GenNext]_vars

(* ------------------------------ properties ---------------------------- *)

\* the submodule the export table declares a symbol for
OwnerOf(s) ==
    LAZY_IMPORT_TABLE[CHOOSE i \in DOMAIN LAZY_IMPORT_TABLE :
                          s \in Range(LAZY_IMPORT_TABLE[i][2])][1]

\* what importing the owning submodule and reading the attribute there gives
DirectRead(s) == ModValue(OwnerOf(s), s, importCount[OwnerOf(s)])

Bound(s) == ns[s] # Unbound

\* the thread is inside __getattr__
InHook(t) == pc[t] \in {"scan", "import", "fetch", "bind"}

\* the step is one of thread t
StepOf(t) == pc'[t] # pc[t] \/ result'[t] # result[t] \/ queue'[t] # queue[t]

\* C1: in every reachable state, a lookup of a symbol of the table that has
\* returned a value has returned the value that importing the owning
\* submodule and reading the attribute there gives, and a lookup of an
\* infrastructure name has returned the object the preamble bound.
C1_ResolvesToOwnerValue ==
    \A t \in Threads :
        result[t].kind = "value" =>
            IF result[t].name \in AllSymbols
            THEN /\ OwnerOf(result[t].name) \in sysmodules
                 /\ result[t].val = DirectRead(result[t].name)
            ELSE result[t].val = InfraValue(result[t].name)

\* C1 witness: the second symbol of a submodule has been returned by the hook
\* after lookups that resolved another symbol and failed on an unknown name
C1_Witness ==
    /\ result["t1"] = Returned("LocalGlobusConnectPersonal",
                               ModValue("local_endpoint",
                                        "LocalGlobusConnectPersonal", 1))
    /\ <<"t1", "LocalGlobusConnectPersonal">> \in hooked
    /\ <<"t1", "BaseClient">> \in hooked
    /\ result["t2"] = UnknownAttribute(UnknownName)

\* C2: a step in which the import of the owning submodule fails hands the
\* import's exception to the caller, writes nothing to the namespace (the
\* symbol is unbound before and after), leaves sys.modules as it was; and a
\* lookup of a symbol that is unbound is never answered by a plain read: it
\* enters the hook, whose scan finds the owner and whose import step runs
\* the import again.
C2_ImportFailurePropagates ==
    [][\A t \in Threads :
        /\ (pc[t] = "import" /\ pc'[t] = "idle") =>
              /\ result'[t] = ImportFailure(OwnerOf(name[t]), name[t])
              /\ ns' = ns
              /\ ~Bound(name[t])
              /\ sysmodules' = sysmodules
              /\ importCount' = importCount
              /\ hooked' = hooked
        /\ \A s \in AllSymbols :
              /\ (pc[t] = "idle" /\ ~Bound(s) /\ StepOf(t) /\ pc'[t] = "idle")
                    => result'[t].name # s
              /\ (pc[t] = "scan" /\ name[t] = s /\ StepOf(t))
                    => pc'[t] = "import" /\ mod'[t] = OwnerOf(s)
              /\ (pc[t] = "import" /\ name[t] = s /\ StepOf(t)
                  /\ OwnerOf(s) \notin sysmodules)
                    => \/ pc'[t] = "idle"
                       \/ /\ OwnerOf(s) \in sysmodules'
                          /\ importCount'[OwnerOf(s)] = importCount[OwnerOf(s)] + 1
      ]_vars

\* C2 witness: a thread's lookup failed on the import of the owner, and the
\* symbol has since been resolved by an import that ran after that failure
C2_Witness ==
    /\ result["t1"] = ImportFailure("client", "BaseClient")
    /\ result["t2"] = Returned("BaseClient", ModValue("client", "BaseClient", 1))
    /\ <<"t2", "BaseClient">> \in hooked

\* C3: the unknown name is never bound, and the step of the hook's scan on a
\* name of no table entry ends the call with the AttributeError naming the
\* package and the name, imports nothing and leaves the namespace unchanged.
C3_UnknownNameFails ==
    /\ [](~Bound(UnknownName))
    /\ [][\A t \in Threads :
            (pc[t] = "scan" /\ name[t] \notin AllSymbols /\ StepOf(t)) =>
               /\ pc'[t] = "idle"
               /\ result'[t] = UnknownAttribute(name[t])
               /\ ns' = ns
               /\ sysmodules' = sysmodules
               /\ importCount' = importCount
         ]_vars

\* C3 witness: both threads' lookups of the unknown name have failed, with a
\* symbol bound and nothing else imported
C3_Witness ==
    /\ result["t1"] = UnknownAttribute(UnknownName)
    /\ result["t2"] = UnknownAttribute(UnknownName)
    /\ Bound("BaseClient")
    /\ sysmodules = {"client"}

\* C4: no step of any thread (lookup, failed lookup, enumeration, force-eager
\* call) unbinds a bound name of the namespace or binds it to another value.
C4_CacheMonotonic ==
    [][\A n \in Names : Bound(n) => ns'[n] = ns[n]]_vars

\* C4 witness: every symbol is bound after a force-eager call, while the
\* other thread's last lookup failed
C4_Witness ==
    /\ \A s \in AllSymbols : Bound(s)
    /\ result["t1"].kind = "forced"
    /\ result["t2"].kind = "AttributeError"

\* C5: the body of a submodule runs to completion at most once; it has run
\* once when a symbol of the submodule is bound; and once a symbol of the
\* submodule is bound, no step runs the body again or fails on its import.
C5_ImportOnce ==
    /\ [](\A m \in Modules :
            /\ importCount[m] <= 1
            /\ (m \in sysmodules <=> importCount[m] = 1)
            /\ (\E s \in Range(ItemsOf(m)) : Bound(s)) => importCount[m] = 1)
    /\ [][\A m \in Modules :
            (\E s \in Range(ItemsOf(m)) : Bound(s)) =>
                /\ importCount'[m] = importCount[m]
                /\ \A t \in Threads :
                      (pc[t] = "import" /\ mod[t] = m /\ StepOf(t))
                          => pc'[t] = "fetch"
         ]_vars

\* C5 witness: two distinct symbols of one submodule have been resolved
\* through the hook and the submodule's body has run once
C5_Witness ==
    /\ <<"t1", "GlobusConnectPersonalOwnerInfo">> \in hooked
    /\ <<"t1", "LocalGlobusConnectPersonal">> \in hooked
    /\ Bound("GlobusConnectPersonalOwnerInfo")
    /\ Bound("LocalGlobusConnectPersonal")
    /\ importCount["local_endpoint"] = 1

\* C6: whatever the interleaving of the hook's steps, the value a thread has
\* fetched and is about to bind, the value a thread's lookup returned and the
\* value the namespace holds for a symbol are all the one object of the
\* owning submodule's single execution; when both threads have returned from
\* the hook for the same symbol, the body of the owner has run exactly once.
C6_RaceSameValue ==
    /\ \A s \in AllSymbols :
          /\ Bound(s) => ns[s] = ModValue(OwnerOf(s), s, 1)
          /\ \A t \in Threads :
                /\ (pc[t] = "bind" /\ name[t] = s)
                      => value[t] = ModValue(OwnerOf(s), s, 1)
                /\ (result[t].kind = "value" /\ result[t].name = s)
                      => result[t].val = ModValue(OwnerOf(s), s, 1)
                /\ <<t, s>> \in hooked => ns[s] = ModValue(OwnerOf(s), s, 1)
          /\ (\A t \in Threads : <<t, s>> \in hooked)
                => importCount[OwnerOf(s)] = 1
    /\ \A m \in Modules : importCount[m] <= 1

\* C6 witness: both threads entered the hook for the same unbound symbol and
\* both have returned from it with a value
C6_Witness ==
    /\ <<"t1", "BaseClient">> \in hooked
    /\ <<"t2", "BaseClient">> \in hooked
    /\ result["t1"] = Returned("BaseClient", ns["BaseClient"])
    /\ result["t2"] = Returned("BaseClient", ns["BaseClient"])

\* the accesses of symbol s that the log of a force-eager call records
Accesses(log, s) == {i \in DOMAIN log : log[i][1] = s}

\* those of them that entered the hook
HookEntries(log, s) == {i \in DOMAIN log : log[i] = <<s, "hook">>}

\* C7 as stated: a force-eager call that completed without error left every
\* symbol bound and drove every symbol through the hook exactly once.
C7_EverySymbolHookedOnce ==
    \A t \in Threads :
        result[t].kind = "forced" =>
            /\ \A s \in AllSymbols : Bound(s)
            /\ \A s \in AllSymbols : Cardinality(HookEntries(flog[t], s)) = 1

\* C7 amended: a force-eager call that completed without error left every
\* symbol bound and accessed every symbol exactly once; no call accesses a
\* symbol twice; an access enters the hook exactly when the symbol is unbound
\* at that access, and is a plain read otherwise.
C7_ForceResolvesAll ==
    /\ [](\A t \in Threads :
            /\ result[t].kind = "forced" =>
                  /\ \A s \in AllSymbols : Bound(s)
                  /\ \A s \in AllSymbols :
                        Cardinality(Accesses(flog[t], s)) = 1
                  /\ Len(flog[t]) = Cardinality(AllSymbols)
            /\ \A s \in AllSymbols :
                  /\ Cardinality(Accesses(flog[t], s)) <= 1
                  /\ (HookEntries(flog[t], s) # {} /\ ~(InHook(t) /\ name[t] = s)
                      /\ (InForce(t) \/ result[t].kind = "forced"))
                        => <<t, s>> \in hooked)
    /\ [][\A t \in Threads :
            Len(flog'[t]) = Len(flog[t]) + 1 =>
                LET e == flog'[t][Len(flog'[t])]
                IN  /\ e[1] = Head(queue[t])
                    /\ e[2] = "hook" <=> ~Bound(e[1])
                    /\ e[2] = "hook" => (pc'[t] = "scan" /\ name'[t] = e[1])
                    /\ e[2] = "plain" => (pc'[t] = "force" /\ ns' = ns)
         ]_vars

\* C7 witness: a force-eager call has completed with every symbol bound,
\* having found one symbol already bound and driven the others through the
\* hook
C7_Witness ==
    /\ result["t1"].kind = "forced"
    /\ \A s \in AllSymbols : Bound(s)
    /\ HookEntries(flog["t1"], "BaseClient") = {}
    /\ HookEntries(flog["t1"], "GlobusConnectPersonalOwnerInfo") # {}
    /\ HookEntries(flog["t1"], "LocalGlobusConnectPersonal") # {}

\* C8: once a thread's force-eager call has completed without error, every
\* symbol is bound to its owner's object, no later step of any thread
\* changes the namespace, sys.modules or the count of imports, the hook
\* never again returns to that thread, and a later force-eager call of that
\* thread never enters the hook: each of its accesses is a plain read.
C8_ForceIdempotent ==
    /\ [](\A t \in Threads :
            forceDone[t] >= 1 =>
                /\ \A s \in AllSymbols : ns[s] = ModValue(OwnerOf(s), s, 1)
                /\ InForce(t) =>
                      /\ pc[t] = "force"
                      /\ \A i \in DOMAIN flog[t] : flog[t][i][2] = "plain")
    /\ [][(\E t \in Threads : forceDone[t] >= 1) =>
              /\ ns' = ns
              /\ sysmodules' = sysmodules
              /\ importCount' = importCount
              /\ \A t \in Threads, s \in AllSymbols :
                    (forceDone[t] >= 1 /\ <<t, s>> \in hooked')
                        => <<t, s>> \in hooked
         ]_vars

\* C8 witness: a thread's second force-eager call has completed
C8_Witness ==
    /\ forceDone["t1"] = 2
    /\ result["t1"].kind = "forced"
    /\ Len(flog["t1"]) = Cardinality(AllSymbols)

\* C9: while a symbol is bound, no thread outside the hook enters the hook
\* for it; a lookup of it by an idle thread returns the bound value and
\* changes nothing; and the hook returns a value to a thread for a symbol
\* only if it has not returned one to that thread for that symbol before.
C9_ResolvedStaysPlain ==
    [][\A t \in Threads, s \in AllSymbols :
          /\ (Bound(s) /\ ~InHook(t) /\ StepOf(t))
                => ~(pc'[t] = "scan" /\ name'[t] = s)
          /\ (Bound(s) /\ pc[t] = "idle" /\ pc'[t] = "idle" /\ StepOf(t)
              /\ result'[t].kind = "value" /\ result'[t].name = s)
                => /\ result'[t].val = ns[s]
                   /\ ns' = ns
                   /\ importCount' = importCount
                   /\ hooked' = hooked
          /\ (pc[t] = "bind" /\ name[t] = s /\ StepOf(t))
                => /\ <<t, s>> \notin hooked
                   /\ ns'[s] = value[t]
      ]_vars

\* C9 witness: a thread that resolved a symbol through the hook has later
\* read it again, in a force-eager call, by a plain read
C9_Witness ==
    /\ <<"t1", "BaseClient">> \in hooked
    /\ InForce("t1")
    /\ flog["t1"] = <<<<"BaseClient", "plain">>>>

\* C10: a step of a thread inside the hook for a name changes the binding of
\* no other name, imports no submodule other than the owner of that name
\* (none if the name has no owner), and entering the hook changes nothing.
C10_ResolutionFrame ==
    [][\A t \in Threads :
          /\ (InHook(t) /\ StepOf(t)) =>
                /\ \A n \in Names \ {name[t]} : ns'[n] = ns[n]
                /\ \A m \in Modules :
                      (name[t] \notin AllSymbols \/ m # OwnerOf(name[t])) =>
                          /\ (m \in sysmodules' <=> m \in sysmodules)
                          /\ importCount'[m] = importCount[m]
                /\ hooked' \subseteq hooked \cup {<<t, name[t]>>}
          /\ (~InHook(t) /\ StepOf(t)) =>
                /\ ns' = ns
                /\ sysmodules' = sysmodules
                /\ importCount' = importCount
      ]_vars

\* C10 witness: one symbol of a two-symbol submodule is resolved; its sibling
\* is unbound, the other submodule is not imported and its symbol is unbound
C10_Witness ==
    /\ <<"t1", "GlobusConnectPersonalOwnerInfo">> \in hooked
    /\ Bound("GlobusConnectPersonalOwnerInfo")
    /\ ~Bound("LocalGlobusConnectPersonal")
    /\ ~Bound("BaseClient")
    /\ sysmodules = {"local_endpoint"}
    /\ result["t1"].kind = "value"

\* the namespace right after module load, before any resolution
NsAtLoad ==
    [n \in Names |-> IF n \in Range(InfraNames) THEN InfraValue(n) ELSE Unbound]

\* C11: in every reachable state the value an enumeration returned is the
\* value the enumeration gives on the namespace as loaded, before any
\* resolution; and an enumeration step binds no symbol, imports no submodule
\* and enters no hook.
C11_EnumerationIndependent ==
    /\ [](\A t \in Threads :
            result[t].kind = "dir" => result[t].val = DirValue(NsAtLoad))
    /\ [][\A t \in Threads :
            (pc[t] = "idle" /\ result'[t].kind = "dir" /\ StepOf(t)) =>
                /\ ns' = ns
                /\ sysmodules' = sysmodules
                /\ importCount' = importCount
                /\ hooked' = hooked
                /\ pc'[t] = "idle"
         ]_vars

\* C11 witness: an enumeration has returned, and every symbol has been
\* resolved by a force-eager call of the other thread
C11_Witness ==
    /\ result["t1"].kind = "dir"
    /\ forceDone["t2"] = 1
    /\ \A s \in AllSymbols : Bound(s)

\* C14: the step in which the imported submodule lacks the declared
\* attribute ends the lookup with an AttributeError naming the submodule and
\* the symbol, handed to the caller, and writes nothing to the namespace; a
\* symbol its submodule does not define is never bound.
C14_MissingAttributeFails ==
    /\ [](\A s \in absent : ~Bound(s))
    /\ [][\A t \in Threads :
            (pc[t] = "fetch" /\ name[t] \in absent /\ StepOf(t)) =>
                /\ pc'[t] = "idle"
                /\ result'[t] = MissingAttribute(OwnerOf(name[t]), name[t])
                /\ result'[t].kind = "AttributeError"
                /\ OwnerOf(name[t]) \in sysmodules
                /\ ns' = ns
                /\ hooked' = hooked
         ]_vars

\* C14 witness: a lookup has failed on the attribute its imported submodule
\* lacks, while the sibling symbol of that submodule is resolved
C14_Witness ==
    /\ result["t1"] = MissingAttribute("local_endpoint",
                                       "LocalGlobusConnectPersonal")
    /\ "local_endpoint" \in sysmodules
    /\ ~Bound("LocalGlobusConnectPersonal")
    /\ Bound("GlobusConnectPersonalOwnerInfo")

\* the thread's last force-eager call ended with an import failure
ForceFailed(t) ==
    /\ pc[t] = "idle"
    /\ result[t].kind = "ImportError"
    /\ flog[t] # <<>>

\* C19: the step in which an import fails inside a force-eager call ends the
\* call with the import's exception at the symbol being accessed and changes
\* no binding; after it every symbol accessed earlier in the call is bound
\* and the failing symbol is the last one accessed; the thread may call the
\* entry point again, the new call starts over the whole table, reaches the
\* hook for each symbol still unbound and runs the import of a submodule not
\* yet imported again; a call that completes leaves every symbol bound.
C19_ForceFailureKeepsProgress ==
    /\ [](\A t \in Threads :
            /\ ForceFailed(t) =>
                  /\ \A i \in 1..(Len(flog[t]) - 1) : Bound(flog[t][i][1])
                  /\ flog[t][Len(flog[t])] = <<result[t].name, "hook">>
                  /\ result[t] = ImportFailure(OwnerOf(result[t].name),
                                               result[t].name)
                  /\ queue[t] = <<>>
                  /\ forceDone[t] < MaxForce
            /\ result[t].kind = "forced" => \A s \in AllSymbols : Bound(s))
    /\ [][\A t \in Threads :
            /\ (InForce(t) /\ pc[t] = "import" /\ pc'[t] = "idle") =>
                  /\ ns' = ns
                  /\ sysmodules' = sysmodules
                  /\ ForceFailed(t)'
                  /\ result'[t].name = name[t]
            /\ (ForceFailed(t) /\ pc'[t] = "force") =>
                  queue'[t] = ForceQueue(ResolutionTable, iterOrder)
            /\ (pc[t] = "force" /\ queue[t] # <<>> /\ ~Bound(Head(queue[t]))
                /\ StepOf(t)) =>
                  (pc'[t] = "scan" /\ name'[t] = Head(queue[t]))
            /\ (InForce(t) /\ pc[t] = "import" /\ StepOf(t)
                /\ mod[t] \notin sysmodules) =>
                  \/ pc'[t] = "idle"
                  \/ /\ mod[t] \in sysmodules'
                     /\ importCount'[mod[t]] = importCount[mod[t]] + 1
         ]_vars

\* C19 witness: a thread's force-eager call failed on the import of the
\* second submodule after resolving the symbol of the first; the import was
\* run again afterwards by the other thread's force-eager call, which has
\* completed with every symbol bound
C19_Witness ==
    /\ ForceFailed("t1")
    /\ result["t1"].val = ImportFailure("local_endpoint", "").val
    /\ Len(flog["t1"]) = 2
    /\ flog["t1"][1] = <<"BaseClient", "hook">>
    /\ forceDone["t2"] = 1
    /\ result["t2"].kind = "forced"
    /\ \A s \in AllSymbols : Bound(s)

\* C20: in every reachable state a bound symbol of the table has its owning
\* submodule in sys.modules, imported by one completed execution of its
\* body, and is bound to that submodule's attribute of the same name.
C20_BoundImpliesImported ==
    \A s \in AllSymbols :
        Bound(s) =>
            /\ OwnerOf(s) \in sysmodules
            /\ importCount[OwnerOf(s)] >= 1
            /\ ns[s] = DirectRead(s)
            /\ s \notin absent

\* C20 witness: one submodule is imported with one of its symbols bound, the
\* other submodule is not imported and a thread is inside the hook for it
C20_Witness ==
    /\ Bound("LocalGlobusConnectPersonal")
    /\ sysmodules = {"local_endpoint"}
    /\ pc["t2"] = "import"
    /\ mod["t2"] = "client"

(* ----------------------- properties of the generator ------------------ *)

\* the (modname, item) pairs of an export table
TablePairs(tbl) ==
    UNION {{<<tbl[i][1], tbl[i][2][j]>> : j \in DOMAIN tbl[i][2]} :
             i \in DOMAIN tbl}

\* the (modname, item) pairs of a run-time table of sets
LazyPairs(lz) ==
    UNION {{<<lz[i][1], x>> : x \in lz[i][2]} : i \in DOMAIN lz}

\* no symbol is listed twice in the export table
UniqueSymbols(tbl) == Cardinality(Range(Chain(tbl))) = Len(Chain(tbl))

\* two submodules of the export table list the same symbol
Collides(tbl) ==
    \E i, j \in DOMAIN tbl :
        i # j /\ Range(tbl[i][2]) \cap Range(tbl[j][2]) # {}

\* the export tables that list the same entries in another order
TableOrders(tbl) ==
    {[i \in DOMAIN tbl |-> tbl[q[i]]] : q \in Orders(DOMAIN tbl)}

\* C12: the generator writes no output for an export table in which two
\* submodules list the same symbol.
C12_CollisionRejected == Collides(table) => file = <<>>

\* C13: the enumeration hook of the loaded module returns the module's
\* __all__ followed by __all__, __file__ and __path__, and __all__ is the
\* two infrastructure names followed by the symbols of the export table in
\* strictly ascending order (sorted, none twice), each symbol of the table
\* among them.
C13_EnumerationIsExportList ==
    dirOut # <<>> =>
        LET n    == Len(dirOut)
            exp  == SubSeq(dirOut, 1, n - 3)
            syms == SubSeq(exp, 3, Len(exp))
        IN  /\ n >= 5
            /\ SubSeq(dirOut, n - 2, n) = <<"__all__", "__file__", "__path__">>
            /\ exp = module.all
            /\ SubSeq(exp, 1, 2) = <<"__version__", "_force_eager_imports">>
            /\ \A i, j \in DOMAIN syms :
                  i < j => StrRank(syms[i]) < StrRank(syms[j])
            /\ Range(syms) = Range(Chain(table))

\* the pieces of the text that belong to the dict display
TablePieces(f) ==
    SelectSeq(f, LAMBDA l : l[1] \in {"table-open", "key-open", "item",
                                      "key-close", "table-close"})

\* the pieces of the text that belong to the __all__ tuple
AllPieces(f) ==
    SelectSeq(f, LAMBDA l : l[1] \in {"all-open", "all", "all-close"})

\* C15: the text written is laid out as preamble, dict display of the table,
\* the if line with the import list, the else branch with the hooks, the
\* __all__ tuple, epilog; and once the text is written, a further run of the
\* generator, whatever its hash seed, writes the same text.
C15_GenerationDeterministic ==
    /\ [](file # <<>> =>
            file = <<Preamble, Blank>> \o TablePieces(file)
                     \o <<Blank, IfLine>> \o PiecesOf(file, "from-import")
                     \o <<ElseHooks, Blank>> \o AllPieces(file)
                     \o <<Blank, Epilog>>)
    /\ [][file # <<>> => (file' = file /\ table' = table)]_vars

\* C15 witness: the generator has run twice, the second time under the other
\* hash seed, on a table with two entries
C15_Witness ==
    /\ runs = 2
    /\ hashseed = "h2"
    /\ file # <<>>
    /\ Len(table) = 2
    /\ Len(table[1][2]) = 2

C17_ResolutionTableIsExportTable ==
    module.mode # "none" =>
        /\ LazyPairs(module.lazy) = TablePairs(table)
        /\ \A n \in Range(module.all) \ Range(InfraNames) :
              /\ ScanTable(module.lazy, n) # ""
              /\ <<ScanTable(module.lazy, n), n>> \in TablePairs(table)

\* C17 witness: the module is loaded in normal mode from the text generated
\* from the package's export table
C17_Witness ==
    /\ module.mode = "normal"
    /\ table = LAZY_IMPORT_TABLE
    /\ Cardinality(LazyPairs(module.lazy)) = 3

\* the (modname, item) pairs of an export table in the order of the table
RECURSIVE PairSeq(_)
PairSeq(tbl) ==
    IF tbl = <<>> THEN <<>>
    ELSE [j \in DOMAIN tbl[1][2] |-> <<tbl[1][1], tbl[1][2][j]>>]
           \o PairSeq(Tail(tbl))

\* C18: the import list of the text is, statement by statement, the pairs of
\* the export table in table order; a module loaded in static mode has every
\* symbol of the table bound (to its submodule's object when no symbol is
\* repeated), binds nothing else and has no hook; a module loaded in normal
\* mode has both hooks; a loaded module never changes.
C18_StaticModeImportsAll ==
    /\ [](file # <<>> =>
            LET ls == PiecesOf(file, "from-import")
                st == [i \in DOMAIN ls |-> <<ls[i][2], ls[i][3]>>]
            IN  /\ st = PairSeq(table)
                /\ \A pr \in TablePairs(table) :
                      Cardinality({i \in DOMAIN st : st[i] = pr}) = 1)
    /\ [](module.mode = "static" =>
            /\ module.hooks = {}
            /\ \A s \in ModuleNames \ Range(InfraNames) :
                  IF s \in Range(Chain(table))
                  THEN /\ module.ns[s] # Unbound
                       /\ <<module.ns[s][1], s>> \in TablePairs(table)
                       /\ module.ns[s] = ModValue(module.ns[s][1], s, 1)
                  ELSE module.ns[s] = Unbound)
    /\ [](module.mode = "normal" => module.hooks = {"__dir__", "__getattr__"})
    /\ [][module.mode # "none" => module' = module]_vars

\* C18 witness: the text generated from the package's export table is loaded
\* in static mode
C18_Witness ==
    /\ module.mode = "static"
    /\ table = LAZY_IMPORT_TABLE
    /\ \A s \in Range(Chain(table)) : module.ns[s] # Unbound

====
